---- MODULE Spec2Model ----
(***************************************************************************)
(* A model of the three command-line tools of the SME IR toolkit:          *)
(*   - score_ir_readiness.py          (the readiness scorer)               *)
(*   - checks/email_dmarc_spf_checker.py (the SPF/DMARC/DKIM checker)      *)
(*   - tools/generator/build_raci_from_yaml.py (the RACI generator)        *)
(* Each tool is one process that runs from its arguments to its exit.      *)
(* A Python str is modelled as a sequence of one-character strings, so     *)
(* that lower(), upper(), strip(), split(), startswith() and the `in`      *)
(* substring test are computed character by character, as Python does.     *)
(***************************************************************************)
EXTENDS Integers, Sequences, FiniteSets, TLC

VARIABLES
    pc,           \* position of the running tool's main()
    exitCode,     \* the process exit status, meaningful once pc = "exit"
    stderr,       \* messages written to standard error, in order
    csvFile,      \* scorer: the input CSV ([exists, fieldnames, rows])
    outputArg,    \* scorer: whether --output was given
    rowIdx,       \* scorer: number of data rows consumed by read_responses
    scores,       \* scorer: the dict built by read_responses
    summary,      \* scorer: the score summary printed to stdout (<<>> if none)
    reportFile,   \* scorer: the Markdown report written (<<>> if none)
    args,         \* checker: [domain, input, output, dkim_selector]
    domains,      \* checker: the list load_domains returned
    domIdx,       \* checker: number of domains the batch loop has finished
    attempts,     \* checker: the domains check_domain was called on, in order
    dns,          \* checker: the TXT response the zone of a single-domain run gives each query
    lookup,       \* checker: the DNS response to the latest TXT query
    failed,       \* checker: the queries of the current check_domain call that failed
    cur,          \* checker: check_domain's locals for the domain in progress
    results,      \* checker: main's results list
    errors,       \* checker: the domains an "Error checking domain" line was printed for
    notice,       \* checker: the "No domains ..." lines printed
    report,       \* checker: the postures print_human_report printed
    csvOut,       \* checker: the rows export_csv wrote (<<>> if no file)
    yamlFile,     \* generator: the --input file ([exists, parses, doc])
    data,         \* generator: what load_yaml returned (<<>> until it returns)
    xlsx          \* generator: the workbook at the --output path (<<>> if none)

scorerVars == <<csvFile, outputArg, rowIdx, scores, summary, reportFile>>
emailVars == <<args, dns, domains, domIdx, attempts, lookup, failed, cur, results, errors, notice, report, csvOut>>
raciVars == <<yamlFile, data, xlsx>>
vars == <<pc, exitCode, stderr, scorerVars, emailVars, raciVars>>

---------------------------------------------------------------------------
(* Bounds of the model *)

\* the longest CSV the scorer is given row by row from the field pools
MaxRows == 2
\* the most TXT records in one DNS answer
MaxAnswers == 2
\* the most rows a CSV gives one and the same question
MaxRepeats == 8

---------------------------------------------------------------------------
(* Python str operations *)

UpperLetters == <<"A","B","C","D","E","F","G","H","I","J","K","L","M","N","O","P","Q","R","S","T","U","V","W","X","Y","Z">>

LowerLetters == <<"a","b","c","d","e","f","g","h","i","j","k","l","m","n","o","p","q","r","s","t","u","v","w","x","y","z">>

Digits == <<"0","1","2","3","4","5","6","7","8","9">>

Whitespace == {" ", "\t", "\n", "\r"}

LowerChar(c) ==
    IF \E i \in 1..26 : UpperLetters[i] = c
    THEN LowerLetters[CHOOSE i \in 1..26 : UpperLetters[i] = c]
    ELSE c

UpperChar(c) ==
    IF \E i \in 1..26 : LowerLetters[i] = c
    THEN UpperLetters[CHOOSE i \in 1..26 : LowerLetters[i] = c]
    ELSE c

lower(s) == [i \in 1..Len(s) |-> LowerChar(s[i])]

upper(s) == [i \in 1..Len(s) |-> UpperChar(s[i])]

startswith(s, p) == Len(s) >= Len(p) /\ SubSeq(s, 1, Len(p)) = p

\* Python's `sub in s`
contains(s, sub) == \E i \in 0..(Len(s) - Len(sub)) : SubSeq(s, i + 1, i + Len(sub)) = sub

\* str.strip(chars): drop the leading and trailing characters that are in chars
stripChars(s, chars) ==
    IF \A i \in 1..Len(s) : s[i] \in chars
    THEN <<>>
    ELSE LET first == CHOOSE i \in 1..Len(s) : s[i] \notin chars /\ \A j \in 1..(i - 1) : s[j] \in chars
             last == CHOOSE i \in 1..Len(s) : s[i] \notin chars /\ \A j \in (i + 1)..Len(s) : s[j] \in chars
         IN SubSeq(s, first, last)

strip(s) == stripChars(s, Whitespace)

\* str.replace(old, new), left to right, non-overlapping
RECURSIVE replace(_, _, _)
replace(s, old, new) ==
    IF Len(s) < Len(old) \/ Len(old) = 0 THEN s
    ELSE IF startswith(s, old)
         THEN new \o replace(SubSeq(s, Len(old) + 1, Len(s)), old, new)
         ELSE <<s[1]>> \o replace(Tail(s), old, new)

\* str.split(sep) for a one-character separator
RECURSIVE split(_, _)
split(s, sep) ==
    IF \A i \in 1..Len(s) : s[i] # sep THEN <<s>>
    ELSE LET k == CHOOSE i \in 1..Len(s) : s[i] = sep /\ \A j \in 1..(i - 1) : s[j] # sep
         IN <<SubSeq(s, 1, k - 1)>> \o split(SubSeq(s, k + 1, Len(s)), sep)

\* str.split(sep, 1) when sep occurs in s: the text before and after the first sep
splitOnce(s, sep) ==
    LET k == CHOOSE i \in 1..Len(s) : s[i] = sep /\ \A j \in 1..(i - 1) : s[j] # sep
    IN <<SubSeq(s, 1, k - 1), SubSeq(s, k + 1, Len(s))>>

\* str(n) of a natural number below 100
StrOfNat(n) == IF n < 10 THEN <<Digits[n + 1]>> ELSE <<Digits[(n \div 10) + 1], Digits[(n % 10) + 1]>>

\* a CSV field that csv.DictReader filled with None (a row shorter than the header)
NoneField == <<"<None>">>

DigitValue(c) == (CHOOSE i \in 1..10 : Digits[i] = c) - 1

RECURSIVE DecimalValue(_)
DecimalValue(ds) == IF ds = <<>> THEN 0 ELSE 10 * DecimalValue(SubSeq(ds, 1, Len(ds) - 1)) + DigitValue(ds[Len(ds)])

\* int(field): surrounding whitespace and one sign are accepted, then digits only;
\* anything else raises ValueError, None raises TypeError
ParseInt(field) ==
    IF field = NoneField THEN [ok |-> FALSE, val |-> 0]
    ELSE LET t == strip(field)
             signed == t # <<>> /\ t[1] \in {"+", "-"}
             ds == IF signed THEN Tail(t) ELSE t
         IN IF ds # <<>> /\ \A i \in 1..Len(ds) : \E d \in 1..10 : Digits[d] = ds[i]
            THEN [ok |-> TRUE, val |-> IF signed /\ t[1] = "-" THEN 0 - DecimalValue(ds) ELSE DecimalValue(ds)]
            ELSE [ok |-> FALSE, val |-> 0]

\* round(num / den * 10) as Python's round(x, 1) gives it, in tenths: to the nearest
\* tenth, a tie going to the even tenth
RoundTenths(num, den) ==
    LET q == (num * 10) \div den
        r == (num * 10) % den
    IN IF 2 * r > den \/ (2 * r = den /\ q % 2 = 1) THEN q + 1 ELSE q

---------------------------------------------------------------------------
(* score_ir_readiness.py *)

MIN_Q_ID == 1
MAX_Q_ID == 34
MIN_SCORE == 0
MAX_SCORE == 3

CategoryOrder == <<"Preparation & Governance", "Detection & Reporting", "Containment", "Eradication", "Recovery", "Lessons Learned", "Advanced Controls">>

\* CATEGORY_MAP.get(q_id, "Uncategorised")
CATEGORY_MAP(q) ==
    CASE q \in 1..7 -> "Preparation & Governance"
      [] q \in 8..14 -> "Detection & Reporting"
      [] q \in 15..18 -> "Containment"
      [] q \in 19..22 -> "Eradication"
      [] q \in 23..27 -> "Recovery"
      [] q \in 28..31 -> "Lessons Learned"
      [] q \in 32..34 -> "Advanced Controls"
      [] OTHER -> "Uncategorised"

\* the value of --input's file: question_id and score fields as text
QFieldPool == {<<"1">>, <<"8">>, <<"3","4">>, <<"4","0">>, <<"0">>, <<"x">>}
SFieldPool == {<<"0">>, <<"3">>, <<"4">>, <<"-","1">>, <<"2",".","5">>, NoneField}
RowPool == [question_id : QFieldPool, score : SFieldPool]
GoodHeader == {"question_id", "score"}

ShortFiles == [exists : {TRUE}, fieldnames : {GoodHeader}, rows : UNION {[1..n -> RowPool] : n \in 0..MaxRows}]

\* a fully answered questionnaire whose scores add up to t: threes, one remainder, zeros
StaircaseRows(t) ==
    [q \in MIN_Q_ID..MAX_Q_ID |->
        [question_id |-> StrOfNat(q),
         score |-> IF q <= t \div MAX_SCORE THEN StrOfNat(MAX_SCORE)
                   ELSE IF q = (t \div MAX_SCORE) + 1 THEN StrOfNat(t % MAX_SCORE)
                   ELSE StrOfNat(0)]]

FullFiles == {[exists |-> TRUE, fieldnames |-> GoodHeader, rows |-> StaircaseRows(t)] : t \in 0..(MAX_SCORE * MAX_Q_ID)}

OddFiles ==
    {[exists |-> FALSE, fieldnames |-> {}, rows |-> <<>>],
     [exists |-> TRUE, fieldnames |-> {}, rows |-> <<>>],
     [exists |-> TRUE, fieldnames |-> {"question_id"}, rows |-> <<[question_id |-> <<"1">>, score |-> NoneField]>>],
     [exists |-> TRUE, fieldnames |-> {"id", "question_id", "score"}, rows |-> <<[question_id |-> <<"8">>, score |-> <<"3">>]>>]}

\* one question answered with the highest score again and again: more rows than
\* its category has questions
RepeatFiles ==
    {[exists |-> TRUE, fieldnames |-> GoodHeader,
      rows |-> [i \in 1..n |-> [question_id |-> StrOfNat(q), score |-> StrOfNat(MAX_SCORE)]]] :
        n \in (MaxRepeats - 1)..MaxRepeats, q \in {MIN_Q_ID, MAX_Q_ID}}

CsvFiles == ShortFiles \cup FullFiles \cup OddFiles \cup RepeatFiles

\* read_responses' row check without the upper bound on the score
ValidateRow_NoUpperBound(row) ==
    LET q == ParseInt(row.question_id)
        s == ParseInt(row.score)
    IN IF ~q.ok \/ ~s.ok THEN [ok |-> FALSE, error |-> "ValueError: Invalid data row", q_id |-> 0, score |-> 0]
       ELSE IF q.val < MIN_Q_ID \/ q.val > MAX_Q_ID
            THEN [ok |-> FALSE, error |-> "ValueError: Question ID out of range", q_id |-> q.val, score |-> s.val]
       ELSE IF s.val < MIN_SCORE
            THEN [ok |-> FALSE, error |-> "ValueError: Score out of range", q_id |-> q.val, score |-> s.val]
       ELSE [ok |-> TRUE, error |-> "", q_id |-> q.val, score |-> s.val]

\* one row of the loop body of read_responses: the integers, or the ValueError raised
ValidateRow(row) ==
    LET q == ParseInt(row.question_id)
        s == ParseInt(row.score)
    IN IF ~q.ok \/ ~s.ok THEN [ok |-> FALSE, error |-> "ValueError: Invalid data row", q_id |-> 0, score |-> 0]
       ELSE IF q.val < MIN_Q_ID \/ q.val > MAX_Q_ID
            THEN [ok |-> FALSE, error |-> "ValueError: Question ID out of range", q_id |-> q.val, score |-> s.val]
       ELSE IF s.val < MIN_SCORE \/ s.val > MAX_SCORE
            THEN [ok |-> FALSE, error |-> "ValueError: Score out of range", q_id |-> q.val, score |-> s.val]
       ELSE [ok |-> TRUE, error |-> "", q_id |-> q.val, score |-> s.val]

\* d[k] = v
DictSet(d, k, v) == [x \in DOMAIN d \cup {k} |-> IF x = k THEN v ELSE d[x]]

EmptyDict == [x \in {} |-> 0]

\* a loop body that adds the score of a repeated question to the one it has
SetScore_Adding(d, q_id, score) == DictSet(d, q_id, IF q_id \in DOMAIN d THEN d[q_id] + score ELSE score)

\* scores[q_id] = score
SetScore(d, q_id, score) == DictSet(d, q_id, score)

RECURSIVE SumOver(_, _)
SumOver(d, keys) ==
    IF keys = {} THEN 0
    ELSE LET k == CHOOSE x \in keys : TRUE IN d[k] + SumOver(d, keys \ {k})

\* the first loop of build_category_scores: every question of 1..34 joins its
\* category and adds MAX_SCORE to that category's max_total
RECURSIVE InitCategories(_, _)
InitCategories(q_id, categories) ==
    IF q_id > MAX_Q_ID THEN categories
    ELSE LET cat_name == CATEGORY_MAP(q_id)
             cat == IF cat_name \in DOMAIN categories THEN categories[cat_name]
                    ELSE [name |-> cat_name, total |-> 0, max_total |-> 0, questions |-> <<>>]
         IN InitCategories(q_id + 1,
                DictSet(categories, cat_name,
                    [cat EXCEPT !.questions = Append(@, q_id), !.max_total = @ + MAX_SCORE]))

\* the second loop of build_category_scores: each response is added to its category
build_category_scores(responses) ==
    LET categories == InitCategories(MIN_Q_ID, [x \in {} |-> 0])
    IN [c \in DOMAIN categories |->
           [categories[c] EXCEPT !.total = SumOver(responses, {q \in DOMAIN responses : CATEGORY_MAP(q) = c})]]

SumField(categories, f) ==
    LET RECURSIVE Go(_)
        Go(names) == IF names = {} THEN 0
                     ELSE LET n == CHOOSE x \in names : TRUE IN categories[n][f] + Go(names \ {n})
    IN Go(DOMAIN categories)

\* compute_overall_score cutting the normalized score off after one decimal
compute_overall_score_Truncated(categories) ==
    LET total == SumField(categories, "total")
        max_total == SumField(categories, "max_total")
    IN IF max_total = 0 THEN [total |-> 0, max_total |-> 0, normalized |-> 0]
       ELSE [total |-> total, max_total |-> max_total, normalized |-> (total * 300) \div max_total]

\* (total, max_total, normalized); normalized is kept in tenths (30.0 is 300)
compute_overall_score(categories) ==
    LET total == SumField(categories, "total")
        max_total == SumField(categories, "max_total")
    IN IF max_total = 0 THEN [total |-> 0, max_total |-> 0, normalized |-> 0]
       ELSE [total |-> total, max_total |-> max_total, normalized |-> RoundTenths(total * 30, max_total)]

\* CategoryScore.percentage, in tenths of a percent
percentage(cat) == IF cat.max_total = 0 THEN 0 ELSE RoundTenths(cat.total * 100, cat.max_total)

\* classify_maturity with 10.0 itself outside the lowest tier
classify_maturity_Strict(normalized_score) ==
    IF normalized_score < 100 THEN "Initial"
    ELSE IF normalized_score <= 180 THEN "Basic"
    ELSE IF 180 < normalized_score /\ normalized_score <= 250 THEN "Intermediate"
    ELSE "Advanced"

\* normalized_score is in tenths
classify_maturity(normalized_score) ==
    IF normalized_score <= 100 THEN "Initial"
    ELSE IF 100 < normalized_score /\ normalized_score <= 180 THEN "Basic"
    ELSE IF 180 < normalized_score /\ normalized_score <= 250 THEN "Intermediate"
    ELSE "Advanced"

\* the "Interpretation" section of the report: each tier with the range printed for it
ReportLegend ==
    <<[tier |-> "Initial", lo |-> 0, hi |-> 10],
      [tier |-> "Basic", lo |-> 11, hi |-> 18],
      [tier |-> "Intermediate", lo |-> 19, hi |-> 25],
      [tier |-> "Advanced", lo |-> 26, hi |-> 30]>>

generate_markdown_report(categories, total, max_total, normalized, maturity) ==
    [total |-> total, max_total |-> max_total, normalized |-> normalized, maturity |-> maturity,
     breakdown |-> [i \in 1..Len(CategoryOrder) |->
                      LET cat == categories[CategoryOrder[i]]
                      IN [name |-> cat.name, total |-> cat.total, max_total |-> cat.max_total, pct |-> percentage(cat)]],
     legend |-> ReportLegend,
     next_steps |-> maturity]

ScorerInit ==
    /\ pc = "scorer_open"
    /\ exitCode = 0
    /\ stderr = <<>>
    /\ csvFile \in CsvFiles
    /\ outputArg \in BOOLEAN
    /\ rowIdx = 0
    /\ scores = EmptyDict
    /\ summary = <<>>
    /\ reportFile = <<>>

\* an uncaught exception: the traceback goes to stderr and the interpreter exits 1
Abort(message) ==
    /\ pc' = "exit"
    /\ exitCode' = 1
    /\ stderr' = Append(stderr, message)

\* read_responses up to the header check
ScorerOpen ==
    /\ pc = "scorer_open"
    /\ IF ~csvFile.exists
       THEN Abort("Error: input file not found")
       ELSE IF ~(GoodHeader \subseteq csvFile.fieldnames)
            THEN Abort("ValueError: Input CSV must contain columns")
            ELSE pc' = "scorer_read" /\ UNCHANGED <<exitCode, stderr>>
    /\ UNCHANGED <<scorerVars, emailVars, raciVars>>

\* one iteration of `for row in reader`
ScorerReadRow ==
    /\ pc = "scorer_read"
    /\ rowIdx < Len(csvFile.rows)
    /\ LET r == ValidateRow(csvFile.rows[rowIdx + 1])
       IN IF r.ok
          THEN /\ scores' = SetScore(scores, r.q_id, r.score)
               /\ rowIdx' = rowIdx + 1
               /\ UNCHANGED <<pc, exitCode, stderr>>
          ELSE /\ Abort(r.error)
               /\ UNCHANGED <<scores, rowIdx>>
    /\ UNCHANGED <<csvFile, outputArg, summary, reportFile, emailVars, raciVars>>

\* the end of read_responses and the rest of main
ScorerFinish ==
    /\ pc = "scorer_read"
    /\ rowIdx = Len(csvFile.rows)
    /\ IF DOMAIN scores = {}
       THEN /\ Abort("ValueError: No responses found in the input file.")
            /\ UNCHANGED <<summary, reportFile>>
       ELSE LET categories == build_category_scores(scores)
                overall == compute_overall_score(categories)
                maturity == classify_maturity(overall.normalized)
            IN /\ summary' = <<[total |-> overall.total, max_total |-> overall.max_total,
                                normalized |-> overall.normalized, maturity |-> maturity,
                                categories |-> categories]>>
               /\ reportFile' = IF outputArg
                                THEN <<generate_markdown_report(categories, overall.total, overall.max_total,
                                                                overall.normalized, maturity)>>
                                ELSE <<>>
               /\ pc' = "exit"
               /\ exitCode' = 0
               /\ UNCHANGED stderr
    /\ UNCHANGED <<csvFile, outputArg, rowIdx, scores, emailVars, raciVars>>

ScorerNext == ScorerOpen \/ ScorerReadRow \/ ScorerFinish

---------------------------------------------------------------------------
(* checks/email_dmarc_spf_checker.py *)

\* Optional[str]: None is <<>>, a string s is <<s>>
None == <<>>
Some(s) == <<s>>

\* `for rec in recs: if <test>: return rec` and the `return None` after the loop;
\* hits are the positions of recs that pass the test
FirstMatch(recs, hits) ==
    IF hits = {} THEN None
    ELSE Some(recs[CHOOSE i \in hits : \A j \in hits : i <= j])

\* a DNS failure: what dns.resolver.resolve raised
Failures == {"NXDOMAIN", "NoAnswer", "NoNameservers", "Exception"}
Failed(kind) == [kind |-> kind, rdatas |-> <<>>]
Answer(rdatas) == [kind |-> "answer", rdatas |-> rdatas]

\* rdata.to_text() of a TXT rdata: its character-strings, each quoted, joined by spaces
RECURSIVE to_text(_)
to_text(rdata) ==
    IF rdata = <<>> THEN <<>>
    ELSE IF Len(rdata) = 1 THEN <<"\"">> \o rdata[1] \o <<"\"">>
    ELSE <<"\"">> \o rdata[1] \o <<"\"", " ">> \o to_text(Tail(rdata))

\* lookup_txt_records without the final `except Exception`: an exception that is
\* none of the resolver's three leaves the function
lookup_txt_records_Reraise(response) ==
    IF response.kind = "answer"
    THEN [raised |-> FALSE,
          records |-> [i \in 1..Len(response.rdatas) |->
                          replace(stripChars(to_text(response.rdatas[i]), {"\""}), <<"\""," ","\"">>, <<" ">>)]]
    ELSE [raised |-> response.kind = "Exception", records |-> <<>>]

\* lookup_txt_records given what the resolver did: every failure is caught and
\* gives [], an answer gives one cleaned string per rdata
lookup_txt_records(response) ==
    IF response.kind = "answer"
    THEN [raised |-> FALSE,
          records |-> [i \in 1..Len(response.rdatas) |->
                          replace(stripChars(to_text(response.rdatas[i]), {"\""}), <<"\""," ","\"">>, <<" ">>)]]
    ELSE [raised |-> FALSE, records |-> <<>>]

IsSpfRecord(rec) == startswith(lower(rec), <<"v","=","s","p","f","1">>)

\* get_spf_record comparing the prefix without lower()
get_spf_record_CaseSensitive(txt_records) ==
    FirstMatch(txt_records, {i \in 1..Len(txt_records) : startswith(txt_records[i], <<"v","=","s","p","f","1">>)})

get_spf_record(txt_records) == FirstMatch(txt_records, {i \in 1..Len(txt_records) : IsSpfRecord(txt_records[i])})

Part(text) == [text |-> text, arg |-> <<>>]

\* the chain of assess_spf with the ~all test put before the -all test
SpfPolicyPart_SoftFirst(low) ==
    IF contains(low, <<" ","~","a","l","l">>) THEN <<Part("Soft fail policy (~all). Consider -all if mature.")>>
    ELSE IF contains(low, <<" ","-","a","l","l">>) THEN <<Part("Restrictive policy (-all).")>>
    ELSE IF contains(low, <<" ","?","a","l","l">>) \/ contains(low, <<"a","l","l">>)
         THEN <<Part("Permissive 'all' mechanism. Review necessity.")>>
    ELSE <<>>

\* the if/elif chain of assess_spf over the `all` mechanism: at most one phrase
SpfPolicyPart(low) ==
    IF contains(low, <<" ","-","a","l","l">>) THEN <<Part("Restrictive policy (-all).")>>
    ELSE IF contains(low, <<" ","~","a","l","l">>) THEN <<Part("Soft fail policy (~all). Consider -all if mature.")>>
    ELSE IF contains(low, <<" ","?","a","l","l">>) \/ contains(low, <<"a","l","l">>)
         THEN <<Part("Permissive 'all' mechanism. Review necessity.")>>
    ELSE <<>>

\* (present, record, assessment); the assessment is kept as its parts, which the
\* code joins with single spaces
assess_spf(spf) ==
    IF spf = None \/ spf[1] = <<>>
    THEN [present |-> FALSE, record |-> <<>>, assessment |-> <<Part("No SPF record found.")>>]
    ELSE LET record == strip(spf[1])
             low == lower(record)
             policy == SpfPolicyPart(low)
             include == IF contains(low, <<"i","n","c","l","u","d","e",":">>)
                        THEN <<Part("Uses include mechanisms (check third-party senders).")>> ELSE <<>>
             ip == IF contains(low, <<" ","i","p","4",":">>) \/ contains(low, <<" ","i","p","6",":">>)
                   THEN <<Part("Direct IP mechanisms configured.")>> ELSE <<>>
             redirect == IF contains(low, <<" ","r","e","d","i","r","e","c","t","=">>)
                         THEN <<Part("Uses redirect (advanced configuration).")>> ELSE <<>>
             parts == policy \o include \o ip \o redirect
         IN [present |-> TRUE, record |-> record,
             assessment |-> IF parts = <<>>
                            THEN <<Part("SPF present but could not derive specific guidance.")>>
                            ELSE parts]

\* the loop of parse_dmarc_tag over the parts of record.split(";")
RECURSIVE ParseTags(_, _)
ParseTags(parts, tags) ==
    IF parts = <<>> THEN tags
    ELSE LET part == strip(parts[1])
         IN IF contains(part, <<"=">>)
            THEN LET kv == splitOnce(part, "=")
                 IN ParseTags(Tail(parts), DictSet(tags, lower(strip(kv[1])), strip(kv[2])))
            ELSE ParseTags(Tail(parts), tags)

parse_dmarc_tag(record) == ParseTags(split(record, ";"), [x \in {} |-> <<>>])

\* dict.get(key, default)
DictGet(d, k, default) == IF k \in DOMAIN d THEN d[k] ELSE default

IsDmarcRecord(rec) == startswith(lower(rec), <<"v","=","d","m","a","r","c","1">>)

get_dmarc_record(txt_records) == FirstMatch(txt_records, {i \in 1..Len(txt_records) : IsDmarcRecord(txt_records[i])})

\* the policy taken from the p tag as written
DmarcPolicy_AsWritten(tags) == DictGet(tags, <<"p">>, <<>>)

\* policy = tags.get("p", "").lower()
DmarcPolicy(tags) == lower(DictGet(tags, <<"p">>, <<>>))

\* (present, record, policy, assessment)
assess_dmarc(dmarc) ==
    IF dmarc = None \/ dmarc[1] = <<>>
    THEN [present |-> FALSE, record |-> <<>>, policy |-> <<>>, assessment |-> <<Part("No DMARC record found.")>>]
    ELSE LET record == strip(dmarc[1])
             tags == parse_dmarc_tag(record)
             policy == DmarcPolicy(tags)
             pct == DictGet(tags, <<"p","c","t">>, <<"1","0","0">>)
             rua == DictGet(tags, <<"r","u","a">>, <<>>)
             policyPart == IF policy = <<"n","o","n","e">>
                           THEN Part("Monitoring-only DMARC policy (p=none). Consider quarantine/reject.")
                           ELSE IF policy = <<"q","u","a","r","a","n","t","i","n","e">> THEN Part("Quarantine policy in place (p=quarantine).")
                           ELSE IF policy = <<"r","e","j","e","c","t">> THEN Part("Strong enforcement policy (p=reject).")
                           ELSE Part("DMARC policy missing or unrecognised; review required.")
             ruaPart == IF rua # <<>> THEN Part("Aggregate reporting (rua) configured.")
                        ELSE Part("No aggregate reporting address (rua) configured.")
             pctPart == IF pct # <<"1","0","0">>
                        THEN <<[text |-> "DMARC applies to {pct}% of messages (pct={pct}).", arg |-> pct]>>
                        ELSE <<>>
         IN [present |-> TRUE, record |-> record,
             policy |-> IF policy # <<>> THEN policy ELSE <<"(","n","o","t"," ","s","e","t",")">>,
             assessment |-> <<policyPart, ruaPart>> \o pctPart]

HasDkimVersion(rec) == contains(upper(rec), <<"v","=","D","K","I","M","1">>)

\* the part of get_dkim_record after the lookup: (checked, selector, present, record)
get_dkim_record(selector, txt_records) ==
    IF txt_records = <<>>
    THEN [checked |-> TRUE, selector |-> selector, present |-> FALSE, record |-> <<>>]
    ELSE LET found == FirstMatch(txt_records, {i \in 1..Len(txt_records) : HasDkimVersion(txt_records[i])})
         IN [checked |-> TRUE, selector |-> selector, present |-> TRUE,
             record |-> IF found # None THEN found[1] ELSE txt_records[1]]

\* get_dkim_record when `not selector`: no lookup is made
DkimUnchecked == [checked |-> FALSE, selector |-> <<>>, present |-> FALSE, record |-> <<>>]

\* the notes and the DomainEmailPosture check_domain returns
BuildPosture(domain, spf, dmarc, dkim) ==
    LET notes == (IF ~spf.present THEN <<Part("SPF missing.")>> ELSE <<>>)
              \o (IF ~dmarc.present THEN <<Part("DMARC missing.")>> ELSE <<>>)
              \o (IF dmarc.present /\ dmarc.policy = <<"n","o","n","e">> THEN <<Part("DMARC monitoring only (p=none).")>> ELSE <<>>)
              \o (IF dkim.checked /\ ~dkim.present
                  THEN <<[text |-> "DKIM selector '{dkim_sel}' not found for this domain.", arg |-> dkim.selector]>>
                  ELSE <<>>)
    IN [domain |-> domain,
        spf_present |-> spf.present, spf_record |-> spf.record, spf_assessment |-> spf.assessment,
        dmarc_present |-> dmarc.present, dmarc_record |-> dmarc.record,
        dmarc_policy |-> dmarc.policy, dmarc_assessment |-> dmarc.assessment,
        dkim_checked |-> dkim.checked, dkim_selector |-> IF dkim.checked THEN dkim.selector ELSE <<>>,
        dkim_present |-> dkim.present, dkim_record |-> dkim.record,
        notes |-> notes]

\* code points, for comparing strings as sorted() does
AsciiOrder == <<"\t", "\n", " ", "#", "-", ".">> \o Digits \o UpperLetters \o <<"_">> \o LowerLetters

Ord(c) == CHOOSE i \in 1..Len(AsciiOrder) : AsciiOrder[i] = c

\* a < b for Python strings
StrLess(a, b) ==
    \/ Len(a) < Len(b) /\ SubSeq(b, 1, Len(a)) = a
    \/ \E i \in 1..Len(a) : /\ i <= Len(b)
                            /\ SubSeq(a, 1, i - 1) = SubSeq(b, 1, i - 1)
                            /\ Ord(a[i]) < Ord(b[i])

\* sorted(set): the elements in increasing order
RECURSIVE SortedSeq(_)
SortedSeq(set) ==
    IF set = {} THEN <<>>
    ELSE LET least == CHOOSE x \in set : \A y \in set \ {x} : StrLess(x, y)
         IN <<least>> \o SortedSeq(set \ {least})

\* the lines of the --input file that load_domains keeps, stripped
RECURSIVE KeptLines(_)
KeptLines(lines) ==
    IF lines = <<>> THEN <<>>
    ELSE LET d == strip(lines[1])
         IN (IF d # <<>> /\ ~startswith(d, <<"#">>) THEN <<d>> ELSE <<>>) \o KeptLines(Tail(lines))

\* load_domains without the lower()
load_domains_AsWritten(a) ==
    LET listed == a.domain \o (IF a.input # None THEN KeptLines(a.input[1]) ELSE <<>>)
    IN SortedSeq({listed[i] : i \in {j \in 1..Len(listed) : listed[j] # <<>>}})

load_domains(a) ==
    LET listed == a.domain \o (IF a.input # None THEN KeptLines(a.input[1]) ELSE <<>>)
    IN SortedSeq({lower(listed[i]) : i \in {j \in 1..Len(listed) : listed[j] # <<>>}})

\* what the resolver may do for one TXT query: any failure, or an answer of
\* one to MaxAnswers rdatas from the pool
Responses(pool) ==
    {Failed(k) : k \in Failures} \cup {Answer(r) : r \in UNION {[1..n -> pool] : n \in 1..MaxAnswers}}

SpfPool ==
    {<<<<"v","=","s","p","f","1"," ","i","n","c","l","u","d","e",":","x",".","i","o"," ","-","a","l","l">>>>,
     <<<<"V","=","S","P","F","1"," ","i","p","4",":","1",".","2",".","3",".","4">>, <<"~","a","l","l"," ","-","a","l","l"," ">>>>,
     <<<<"v","=","s","p","f","1"," ","r","e","d","i","r","e","c","t","=","x",".","i","o">>>>,
     <<<<"v","=","s","p","f","1"," ","~","a","l","l">>>>,
     <<<<"v","=","s","p","f","1"," ","+","a","l","l">>>>,
     <<<<"s","i","t","e","-","c","h","e","c","k","=","a","b","c">>>>}

DmarcPool ==
    {<<<<"v","=","D","M","A","R","C","1",";"," ","p","=","n","o","n","e",";"," ","p","c","t","=","5","0">>>>,
     <<<<"v","=","D","M","A","R","C","1",";"," ","P","=","R","e","j","e","c","t",";"," ","r","u","a","=","m","a","i","l","t","o",":","a","@","x",".","i","o",";"," ","p","c","t","=","1","0","0">>>>,
     <<<<"V","=","d","m","a","r","c","1",";","p","=","q","u","a","r","a","n","t","i","n","e"," ",";"," ","p","c","t","="," ","1","0","0"," ">>>>,
     <<<<"v","=","D","M","A","R","C","1">>>>,
     <<<<"v","=","D","M","A","R","C","1",";"," ","p","=","m","o","n","i","t","o","r",";"," ","p","c","t","=">>>>,
     <<<<"v","=","s","p","f","1"," ","-","a","l","l">>>>}

DkimPool ==
    {<<<<"v","=","D","K","I","M","1",";"," ","k","=","r","s","a",";"," ","p","=","M","I","G","f">>>>,
     <<<<"k","=","r","s","a",";"," ","p","=","M","I","G","f">>>>,
     <<<<"s","i","t","e","-","c","h","e","c","k","=","a","b","c">>>>}

\* the resolver in a batch run: one failure or one record per query
BatchSpfResponses == {Failed("NXDOMAIN"), Answer(<<<<<<"v","=","s","p","f","1"," ","-","a","l","l">>>>>>)}
BatchDmarcResponses == {Failed("NoAnswer"), Answer(<<<<<<"v","=","D","M","A","R","C","1",";"," ","p","=","n","o","n","e">>>>>>)}
BatchDkimResponses == {Failed("NoNameservers"), Answer(<<<<<<"v","=","D","K","I","M","1",";"," ","p","=","M","I","G","f">>>>>>)}

NoFile == None
InputFile == Some(<<<<"#"," ","m","a","i","l"," ","d","o","m","a","i","n","s","\n">>, <<"b",".","i","o","\n">>, <<"\n">>, <<" ","A",".","i","o"," ","\n">>>>)
\* a file of comments and blank lines only
CommentFile == Some(<<<<" ","#"," ","n","o","n","e"," ","y","e","t","\n">>, <<"\t","\n">>, <<"#","a",".","i","o","\n">>>>)

\* the command lines of a batch run
BatchArgs ==
    [domain : {<<>>, <<<<"a",".","i","o">>>>, <<<<"c",".","i","o">>, <<"B",".","i","o">>, <<"c",".","i","o">>>>},
     input : {NoFile, InputFile, CommentFile},
     output : BOOLEAN,
     dkim_selector : {None, Some(<<"s","1">>)}]

\* the command lines of a single-domain run
SingleArgs ==
    [domain : {<<<<"A",".","i","o">>>>},
     input : {NoFile},
     output : {TRUE},
     dkim_selector : {None, Some(<<>>), Some(<<"s","1">>)}]

\* a batch run draws each response when the query is made
NoZone == [spf |-> Failed("NoAnswer"), dmarc |-> Failed("NoAnswer"), dkim |-> Failed("NoAnswer")]

\* the zones of a single-domain run: every response of one pool at one of the
\* three names, with a failure or a plain record at the other two
Zones ==
    [spf : Responses(SpfPool), dmarc : BatchDmarcResponses, dkim : BatchDkimResponses]
    \cup [spf : BatchSpfResponses, dmarc : Responses(DmarcPool), dkim : BatchDkimResponses]
    \cup [spf : BatchSpfResponses, dmarc : BatchDmarcResponses, dkim : Responses(DkimPool)]

Unset == <<>>

EmailInit(argSet, zones) ==
    /\ pc = "email_load"
    /\ exitCode = 0
    /\ stderr = <<>>
    /\ args \in argSet
    /\ dns \in zones
    /\ domains = <<>>
    /\ domIdx = 0
    /\ attempts = <<>>
    /\ lookup = [kind |-> "none", name |-> <<>>, response |-> Failed("NoAnswer")]
    /\ failed = {}
    /\ cur = [domain |-> <<>>, spf |-> Unset, dmarc |-> Unset, dkim |-> Unset]
    /\ results = <<>>
    /\ errors = <<>>
    /\ notice = <<>>
    /\ report = <<>>
    /\ csvOut = <<>>

\* main up to the loop: load_domains, and the early return when there are none
LoadDomains ==
    /\ pc = "email_load"
    /\ domains' = load_domains(args)
    /\ IF domains' = <<>>
       THEN pc' = "exit" /\ notice' = Append(notice, "No domains provided. Use --domain or --input.")
       ELSE pc' = "chk_spf" /\ UNCHANGED notice
    /\ UNCHANGED <<exitCode, stderr, args, dns, domIdx, attempts, lookup, failed, cur, results, errors, report, csvOut>>
    /\ UNCHANGED <<scorerVars, raciVars>>

\* the failure of a query, if it failed
FailureOf(query, response) ==
    IF response.kind = "answer" THEN {} ELSE {[query |-> query, error |-> response.kind]}

\* the loop moves on from domain number domIdx + 1
LoopAdvance ==
    /\ domIdx' = domIdx + 1
    /\ pc' = IF domIdx + 1 < Len(domains) THEN "chk_spf" ELSE "email_report"

\* an except clause that leaves the loop after the first error
HandleException_Break ==
    /\ errors' = Append(errors, domains[domIdx + 1])
    /\ domIdx' = domIdx + 1
    /\ pc' = "email_report"
    /\ UNCHANGED results

\* `except Exception as e` in main's loop: the error is printed for this domain
\* and nothing is appended to results
HandleException ==
    /\ errors' = Append(errors, domains[domIdx + 1])
    /\ LoopAdvance
    /\ UNCHANGED results

\* check_domain is entered for the next domain; get_spf_record and assess_spf
CheckSpf(responses) ==
    /\ pc = "chk_spf"
    /\ \E response \in responses :
        LET domain == domains[domIdx + 1]
            txt == lookup_txt_records(response)
        IN /\ lookup' = [kind |-> "spf", name |-> domain, response |-> response]
           /\ failed' = FailureOf("spf", response)
           /\ attempts' = Append(attempts, domain)
           /\ IF txt.raised
              THEN HandleException /\ UNCHANGED cur
              ELSE /\ cur' = [domain |-> domain, spf |-> assess_spf(get_spf_record(txt.records)),
                              dmarc |-> Unset, dkim |-> Unset]
                   /\ pc' = "chk_dmarc"
                   /\ UNCHANGED <<domIdx, errors, results>>
    /\ UNCHANGED <<exitCode, stderr, args, dns, domains, notice, report, csvOut, scorerVars, raciVars>>

\* get_dmarc_record and assess_dmarc
CheckDmarc(responses) ==
    /\ pc = "chk_dmarc"
    /\ \E response \in responses :
        LET txt == lookup_txt_records(response)
        IN /\ lookup' = [kind |-> "dmarc", name |-> <<"_","d","m","a","r","c",".">> \o cur.domain, response |-> response]
           /\ failed' = failed \cup FailureOf("dmarc", response)
           /\ IF txt.raised
              THEN HandleException /\ UNCHANGED cur
              ELSE /\ cur' = [cur EXCEPT !.dmarc = assess_dmarc(get_dmarc_record(txt.records))]
                   /\ pc' = "chk_dkim"
                   /\ UNCHANGED <<domIdx, errors, results>>
    /\ UNCHANGED <<exitCode, stderr, args, dns, domains, attempts, notice, report, csvOut, scorerVars, raciVars>>

\* get_dkim_record, the rest of check_domain, and results.append(res)
CheckDkim(responses) ==
    /\ pc = "chk_dkim"
    /\ IF args.dkim_selector = None \/ args.dkim_selector[1] = <<>>
       THEN /\ cur' = [cur EXCEPT !.dkim = DkimUnchecked]
            /\ results' = Append(results, BuildPosture(cur.domain, cur.spf, cur.dmarc, DkimUnchecked))
            /\ LoopAdvance
            /\ UNCHANGED <<lookup, failed, errors>>
       ELSE \E response \in responses :
               LET selector == args.dkim_selector[1]
                   txt == lookup_txt_records(response)
                   dkim == get_dkim_record(selector, txt.records)
               IN /\ lookup' = [kind |-> "dkim", name |-> selector \o <<".","_","d","o","m","a","i","n","k","e","y",".">> \o cur.domain,
                                response |-> response]
                  /\ failed' = failed \cup FailureOf("dkim", response)
                  /\ IF txt.raised
                     THEN HandleException /\ UNCHANGED cur
                     ELSE /\ cur' = [cur EXCEPT !.dkim = dkim]
                          /\ results' = Append(results, BuildPosture(cur.domain, cur.spf, cur.dmarc, dkim))
                          /\ LoopAdvance
                          /\ UNCHANGED errors
    /\ UNCHANGED <<exitCode, stderr, args, dns, domains, attempts, notice, report, csvOut, scorerVars, raciVars>>

\* an exception leaves check_domain: main's except clause takes it
CheckRaises ==
    /\ pc \in {"chk_dmarc", "chk_dkim"}
    /\ HandleException
    /\ UNCHANGED <<exitCode, stderr, args, dns, domains, attempts, lookup, failed, cur, notice, report, csvOut, scorerVars, raciVars>>

\* after the loop: print_human_report, export_csv when asked for and not empty
EmailReport ==
    /\ pc = "email_report"
    /\ report' = results
    /\ notice' = IF results = <<>> THEN Append(notice, "No domains to report.") ELSE notice
    /\ csvOut' = IF args.output /\ results # <<>> THEN <<results>> ELSE <<>>
    /\ pc' = "exit"
    /\ UNCHANGED <<exitCode, stderr, args, dns, domains, domIdx, attempts, lookup, failed, cur, results, errors>>
    /\ UNCHANGED <<scorerVars, raciVars>>

---------------------------------------------------------------------------
(* tools/generator/build_raci_from_yaml.py *)

\* the most tasks in a generated document
MaxTasks == 2

\* YAML scalars that are not strings keep their type: a role or an assignment key
\* may be a string or an integer
StrVal(s) == [t |-> "str", s |-> s, n |-> 0]
IntVal(n) == [t |-> "int", s |-> <<>>, n |-> n]

\* str(value)
str(v) == IF v.t = "str" THEN v.s ELSE StrOfNat(v.n)

\* a parsed document: None (an empty file), a mapping with or without each of the
\* two keys, a list of strings, a string or an integer.  A value under roles or
\* tasks is [list |-> whether it is a list, items |-> its items]
NullDoc == [kind |-> "null", roles |-> <<>>, tasks |-> <<>>, items |-> <<>>, text |-> <<>>, n |-> 0]
MapDoc(roles, tasks) == [kind |-> "map", roles |-> roles, tasks |-> tasks, items |-> <<>>, text |-> <<>>, n |-> 0]
ListDoc(items) == [kind |-> "list", roles |-> <<>>, tasks |-> <<>>, items |-> items, text |-> <<>>, n |-> 0]
StrDoc(text) == [kind |-> "str", roles |-> <<>>, tasks |-> <<>>, items |-> <<>>, text |-> text, n |-> 0]
IntDoc(n) == [kind |-> "int", roles |-> <<>>, tasks |-> <<>>, items |-> <<>>, text |-> <<>>, n |-> n]

ListOf(items) == [list |-> TRUE, items |-> items]
NotAList == [list |-> FALSE, items |-> <<>>]

RolePool == {StrVal(<<"I","R">>), StrVal(<<"I","T">>), IntVal(7)}

RoleLists == {<<>>, <<StrVal(<<"I","R">>)>>, <<StrVal(<<"I","T">>), StrVal(<<"I","R">>)>>, <<StrVal(<<"I","R">>), IntVal(7)>>}

\* a task: name and assignments may be absent; assignments maps keys to codes
Task(name, assignments) == [name |-> name, assignments |-> assignments]

NoAssignments == [x \in {} |-> <<>>]

TaskPool ==
    {Task(Some(<<"T","r","i","a","g","e">>), Some((StrVal(<<"I","R">>) :> <<"R">>) @@ (StrVal(<<"I","T">>) :> <<"c">>))),
     Task(Some(<<"L","o","g">>), Some(StrVal(<<"I","T">>) :> <<"A">>)),
     Task(Some(<<"N","o","t","i","f","y">>), Some((StrVal(<<"D","P","O">>) :> <<"I">>) @@ (IntVal(7) :> <<"C">>))),
     Task(None, None)}

TaskLists == UNION {[1..n -> TaskPool] : n \in 0..MaxTasks}

YamlDocs ==
    {NullDoc, ListDoc(<<>>), ListDoc(<<<<"r","o","l","e","s">>, <<"t","a","s","k","s">>>>), ListDoc(<<<<"r","o","l","e","s">>>>),
     StrDoc(<<"r","o","l","e","s"," ","a","n","d"," ","t","a","s","k","s">>), StrDoc(<<"t","a","s","k","s">>), IntDoc(0), IntDoc(7),
     MapDoc(None, None), MapDoc(Some(ListOf(<<StrVal(<<"I","R">>)>>)), None), MapDoc(None, Some(ListOf(<<>>))),
     MapDoc(Some(NotAList), Some(ListOf(<<>>))), MapDoc(Some(ListOf(<<>>)), Some(NotAList))}
    \cup {MapDoc(Some(ListOf(r)), Some(ListOf(t))) : r \in RoleLists, t \in TaskLists}

YamlFiles ==
    {[exists |-> FALSE, parses |-> FALSE, doc |-> NullDoc], [exists |-> TRUE, parses |-> FALSE, doc |-> NullDoc]}
    \cup {[exists |-> TRUE, parses |-> TRUE, doc |-> d] : d \in YamlDocs}

\* a workbook that was at the --output path before the run
OldWorkbook == [title |-> "Old", rows |-> <<>>, fills |-> <<>>]

\* `yaml.safe_load(f) or {}`: a falsy document becomes the empty mapping
OrEmptyDict(doc) ==
    IF \/ doc.kind = "null"
       \/ doc.kind = "map" /\ doc.roles = None /\ doc.tasks = None
       \/ doc.kind = "list" /\ doc.items = <<>>
       \/ doc.kind = "str" /\ doc.text = <<>>
       \/ doc.kind = "int" /\ doc.n = 0
    THEN MapDoc(None, None)
    ELSE doc

\* `key in data`: a key of a mapping, an element of a list, a substring of a
\* string; an integer is not iterable and the test raises TypeError
KeyIn(key, d) ==
    CASE d.kind = "map" -> [raised |-> FALSE, val |-> IF key = <<"r","o","l","e","s">> THEN d.roles # None ELSE d.tasks # None]
      [] d.kind = "list" -> [raised |-> FALSE, val |-> \E i \in 1..Len(d.items) : d.items[i] = key]
      [] d.kind = "str" -> [raised |-> FALSE, val |-> contains(d.text, key)]
      [] OTHER -> [raised |-> TRUE, val |-> FALSE]

\* load_yaml without the test for the two keys
load_yaml_NoKeyCheck(file) ==
    IF ~file.exists THEN [ok |-> FALSE, message |-> "Error: input YAML not found", data |-> NullDoc]
    ELSE IF ~file.parses THEN [ok |-> FALSE, message |-> "Error parsing YAML file", data |-> NullDoc]
    ELSE LET d == OrEmptyDict(file.doc)
         IN IF d.kind # "map"
            THEN [ok |-> FALSE, message |-> "TypeError: indices must be integers", data |-> NullDoc]
            ELSE IF (d.roles # None /\ ~d.roles[1].list) \/ (d.tasks # None /\ ~d.tasks[1].list)
            THEN [ok |-> FALSE, message |-> "Error: 'roles' must be a list and 'tasks' must be a list.", data |-> NullDoc]
            ELSE [ok |-> TRUE, message |-> "", data |-> d]

\* load_yaml: the data it returns, or the message it (or the uncaught exception)
\* writes to stderr before the process exits with status 1
load_yaml(file) ==
    IF ~file.exists THEN [ok |-> FALSE, message |-> "Error: input YAML not found", data |-> NullDoc]
    ELSE IF ~file.parses THEN [ok |-> FALSE, message |-> "Error parsing YAML file", data |-> NullDoc]
    ELSE LET d == OrEmptyDict(file.doc)
             hasRoles == KeyIn(<<"r","o","l","e","s">>, d)
             hasTasks == KeyIn(<<"t","a","s","k","s">>, d)
         IN IF hasRoles.raised \/ (hasRoles.val /\ hasTasks.raised)
            THEN [ok |-> FALSE, message |-> "TypeError: argument is not iterable", data |-> NullDoc]
            ELSE IF ~hasRoles.val \/ ~hasTasks.val
            THEN [ok |-> FALSE, message |-> "Error: YAML must contain 'roles' and 'tasks' keys.", data |-> NullDoc]
            ELSE IF d.kind # "map"
            THEN [ok |-> FALSE, message |-> "TypeError: indices must be integers", data |-> NullDoc]
            ELSE IF ~d.roles[1].list \/ ~d.tasks[1].list
            THEN [ok |-> FALSE, message |-> "Error: 'roles' must be a list and 'tasks' must be a list.", data |-> NullDoc]
            ELSE [ok |-> TRUE, message |-> "", data |-> d]

\* the fill build_raci_excel gives a cell, by its value stripped and upper-cased
FillOf(value) ==
    LET v == upper(strip(value))
    IN IF v = <<"R">> THEN "C6EFCE"
       ELSE IF v = <<"A">> THEN "FFC7CE"
       ELSE IF v = <<"C">> THEN "FFEB9C"
       ELSE IF v = <<"I">> THEN "D9E1F2"
       ELSE "none"

\* the row build_raci_excel appends for one task
TaskRow(task, roles) ==
    LET name == IF task.name = None THEN <<>> ELSE task.name[1]
        assignments == IF task.assignments = None THEN NoAssignments ELSE task.assignments[1]
    IN <<name>> \o [i \in 1..Len(roles) |-> DictGet(assignments, StrVal(roles[i]), <<>>)]

\* the workbook build_raci_excel saves
build_raci_excel(d) ==
    LET listed == IF d.roles = None THEN <<>> ELSE d.roles[1].items
        roles == [i \in 1..Len(listed) |-> str(listed[i])]
        tasks == IF d.tasks = None THEN <<>> ELSE d.tasks[1].items
        rows == <<<<<<"T","a","s","k"," ","/"," ","A","c","t","i","v","i","t","y">>>> \o roles>> \o [i \in 1..Len(tasks) |-> TaskRow(tasks[i], roles)]
    IN [title |-> "RACI Matrix",
        rows |-> rows,
        fills |-> [i \in 1..Len(tasks) |-> [j \in 1..Len(roles) |-> FillOf(rows[i + 1][j + 1])]]]

RaciInit ==
    /\ pc = "raci_load"
    /\ exitCode = 0
    /\ stderr = <<>>
    /\ yamlFile \in YamlFiles
    /\ data = <<>>
    /\ xlsx \in {<<>>, <<OldWorkbook>>}

\* data = load_yaml(args.input)
RaciLoad ==
    /\ pc = "raci_load"
    /\ LET r == load_yaml(yamlFile)
       IN IF r.ok
          THEN /\ data' = <<r.data>>
               /\ pc' = "raci_build"
               /\ UNCHANGED <<exitCode, stderr>>
          ELSE /\ Abort(r.message)
               /\ UNCHANGED data
    /\ UNCHANGED <<yamlFile, xlsx, scorerVars, emailVars>>

\* build_raci_excel(data, args.output) and the closing print
RaciBuild ==
    /\ pc = "raci_build"
    /\ xlsx' = <<build_raci_excel(data[1])>>
    /\ pc' = "exit"
    /\ UNCHANGED <<exitCode, stderr, yamlFile, data, scorerVars, emailVars>>

RaciNext == RaciLoad \/ RaciBuild

---------------------------------------------------------------------------
(* The specifications: one tool runs per behaviour *)

ScorerIdle ==
    /\ csvFile = [exists |-> FALSE, fieldnames |-> {}, rows |-> <<>>]
    /\ outputArg = FALSE
    /\ rowIdx = 0
    /\ scores = EmptyDict
    /\ summary = <<>>
    /\ reportFile = <<>>

EmailIdle ==
    /\ args = [domain |-> <<>>, input |-> None, output |-> FALSE, dkim_selector |-> None]
    /\ dns = NoZone
    /\ domains = <<>>
    /\ domIdx = 0
    /\ attempts = <<>>
    /\ lookup = [kind |-> "none", name |-> <<>>, response |-> Failed("NoAnswer")]
    /\ failed = {}
    /\ cur = [domain |-> <<>>, spf |-> Unset, dmarc |-> Unset, dkim |-> Unset]
    /\ results = <<>>
    /\ errors = <<>>
    /\ notice = <<>>
    /\ report = <<>>
    /\ csvOut = <<>>

RaciIdle ==
    /\ yamlFile = [exists |-> FALSE, parses |-> FALSE, doc |-> NullDoc]
    /\ data = <<>>
    /\ xlsx = <<>>

\* the scorer on any of CsvFiles
ScorerStart == ScorerInit /\ EmailIdle /\ RaciIdle
ScorerSpec == ScorerStart /\ [][ScorerNext]_vars

\* the checker's batch loop, on the resolver of a batch run
BatchCheckSpf == CheckSpf(BatchSpfResponses)
BatchCheckDmarc == CheckDmarc(BatchDmarcResponses)
BatchCheckDkim == CheckDkim(BatchDkimResponses)
EmailNext == LoadDomains \/ BatchCheckSpf \/ BatchCheckDmarc \/ BatchCheckDkim \/ CheckRaises \/ EmailReport
EmailStart == EmailInit(BatchArgs, {NoZone}) /\ ScorerIdle /\ RaciIdle
EmailSpec == EmailStart /\ [][EmailNext]_vars

\* the checker on one domain, against each of Zones
DeepCheckSpf == CheckSpf({dns.spf})
DeepCheckDmarc == CheckDmarc({dns.dmarc})
DeepCheckDkim == CheckDkim({dns.dkim})
CheckNext == LoadDomains \/ DeepCheckSpf \/ DeepCheckDmarc \/ DeepCheckDkim \/ EmailReport
CheckStart == EmailInit(SingleArgs, Zones) /\ ScorerIdle /\ RaciIdle
CheckSpec == CheckStart /\ [][CheckNext]_vars

\* the generator on any of YamlFiles
RaciStart == RaciInit /\ ScorerIdle /\ EmailIdle
RaciSpec == RaciStart /\ [][RaciNext]_vars

Init ==
    \/ ScorerInit /\ EmailIdle /\ RaciIdle
    \/ EmailInit(BatchArgs, {NoZone}) /\ ScorerIdle /\ RaciIdle
    \/ EmailInit(SingleArgs, Zones) /\ ScorerIdle /\ RaciIdle
    \/ RaciInit /\ ScorerIdle /\ EmailIdle

Next == ScorerNext \/ EmailNext \/ CheckNext \/ RaciNext

Spec == Init /\ [][Next]_vars

---------------------------------------------------------------------------
(* Properties of the scorer *)

\* a data row the scorer must reject: a field that is no integer, a question
\* id outside 1..34 or a score outside 0..3
IsBadRow(row) ==
    LET q == ParseInt(row.question_id)
        s == ParseInt(row.score)
    IN \/ ~q.ok
       \/ ~s.ok
       \/ q.val \notin 1..34
       \/ s.val \notin 0..3

HasBadRow == \E i \in 1..Len(csvFile.rows) : IsBadRow(csvFile.rows[i])

Readable == csvFile.exists /\ {"question_id", "score"} \subseteq csvFile.fieldnames

\* C1: when any data row of a readable CSV has a question_id outside 1..34, a
\* score outside 0..3 or a non-integer field, the run ends with a validation
\* error on stderr and a non-zero exit, never reads past the first bad row,
\* prints no score summary and writes no report, whatever rows come before or
\* after the bad one.
C1_BadRowAborts ==
    (Readable /\ HasBadRow) =>
        /\ summary = <<>>
        /\ reportFile = <<>>
        /\ \A i \in 1..rowIdx : ~IsBadRow(csvFile.rows[i])
        /\ pc = "exit" =>
              /\ exitCode # 0
              /\ Len(stderr) = 1
              /\ stderr[1] \in {"ValueError: Invalid data row", "ValueError: Question ID out of range",
                               "ValueError: Score out of range"}

\* C1 witness: a run that accepted a valid first row, met a bad second row and
\* exited 1 although --output was given
C1_Witness ==
    /\ Readable
    /\ Len(csvFile.rows) = 2
    /\ ~IsBadRow(csvFile.rows[1])
    /\ IsBadRow(csvFile.rows[2])
    /\ outputArg
    /\ rowIdx = 1
    /\ pc = "exit"
    /\ exitCode = 1

\* the rows of the CSV that name question q
RowsOf(q) == {i \in 1..Len(csvFile.rows) : ParseInt(csvFile.rows[i].question_id) = [ok |-> TRUE, val |-> q]}

Answered(q) == RowsOf(q) # {}

\* the score the CSV records for question q: that of the last row naming q, 0
\* when q is unanswered
Recorded(q) ==
    IF ~Answered(q) THEN 0
    ELSE ParseInt(csvFile.rows[CHOOSE i \in RowsOf(q) : \A j \in RowsOf(q) : j <= i].score).val

RECURSIVE SumRecorded(_)
SumRecorded(q) == IF q = 0 THEN 0 ELSE Recorded(q) + SumRecorded(q - 1)

Abs(x) == IF x < 0 THEN 0 - x ELSE x

\* C2: for any accepted CSV the total is the sum over questions 1..34 of the
\* recorded score (0 for an unanswered question), the maximum is 102, and the
\* normalized score is the tenth nearest to total/102*30; all threes give 30.0
\* and "Advanced", all zeros give 0.0 and "Initial".
C2_OverallScore ==
    summary # <<>> =>
        LET s == summary[1]
        IN /\ s.total = SumRecorded(34)
           /\ s.max_total = 102
           /\ 2 * Abs(102 * s.normalized - 300 * s.total) <= 102
           /\ (\A q \in 1..34 : Answered(q) /\ Recorded(q) = 3) => (s.normalized = 300 /\ s.maturity = "Advanced")
           /\ (\A q \in 1..34 : Answered(q) /\ Recorded(q) = 0) => (s.normalized = 0 /\ s.maturity = "Initial")

\* C2 witness: the summary of a questionnaire answered 3 throughout
C2_Witness ==
    /\ summary # <<>>
    /\ \A q \in 1..34 : Answered(q) /\ Recorded(q) = 3
    /\ summary[1].total = 102
    /\ summary[1].normalized = 300
    /\ summary[1].maturity = "Advanced"

TierRank(tier) ==
    CASE tier = "Initial" -> 1
      [] tier = "Basic" -> 2
      [] tier = "Intermediate" -> 3
      [] tier = "Advanced" -> 4
      [] OTHER -> 0

\* the tier of a total t out of 102
TierOfTotal(t) == classify_maturity(RoundTenths(t * 30, 102))

\* C3: every printed score lies in exactly one of the four tiers, fixed by the
\* total out of 102: Initial for 0..34, Basic for 35..61, Intermediate for 62..85,
\* Advanced for 86..102; a normalized score inside a range the report's legend
\* prints (0-10, 11-18, 19-25, 26-30) has the legend's tier for that range; and no
\* larger total has a lower tier.
C3_MaturityTiers ==
    summary # <<>> =>
        LET s == summary[1]
        IN /\ s.total \in 0..102
           /\ s.maturity \in {"Initial", "Basic", "Intermediate", "Advanced"}
           /\ (s.maturity = "Initial") <=> (s.total \in 0..34)
           /\ (s.maturity = "Basic") <=> (s.total \in 35..61)
           /\ (s.maturity = "Intermediate") <=> (s.total \in 62..85)
           /\ (s.maturity = "Advanced") <=> (s.total \in 86..102)
           /\ \A i \in 1..Len(ReportLegend) :
                 (10 * ReportLegend[i].lo <= s.normalized /\ s.normalized <= 10 * ReportLegend[i].hi)
                     => s.maturity = ReportLegend[i].tier
           /\ reportFile # <<>> => (reportFile[1].maturity = s.maturity /\ reportFile[1].legend = ReportLegend)
           /\ \A t \in s.total..102 : TierRank(TierOfTotal(t)) >= TierRank(s.maturity)

\* C3 witness: a total of 35 (normalized 10.3) is printed and reported as Basic
C3_Witness ==
    /\ summary # <<>>
    /\ reportFile # <<>>
    /\ summary[1].total = 35
    /\ summary[1].normalized = 103
    /\ summary[1].maturity = "Basic"

\* the categories of the questionnaire, in report order, with their numbers of questions
CategorySizes == <<7, 7, 4, 4, 5, 4, 3>>

RECURSIVE SumOfRecorded(_)
SumOfRecorded(questions) ==
    IF questions = <<>> THEN 0 ELSE Recorded(questions[1]) + SumOfRecorded(Tail(questions))

\* the score the first n rows of the CSV record for question q
RecordedBy(n, q) ==
    LET hits == {i \in 1..n : ParseInt(csvFile.rows[i].question_id) = [ok |-> TRUE, val |-> q]}
    IN ParseInt(csvFile.rows[CHOOSE i \in hits : \A j \in hits : j <= i].score).val

\* C12: while and after the valid rows are read, repeated question ids
\* included, the dict holds for each question read its latest score, within 0..3;
\* the categories built from it are the seven of the questionnaire, partition
\* the ids 1..34 with 7,7,4,4,5,4,3 questions, have max_total 3 times that number
\* and a total that is the sum of the recorded scores of their questions, so
\* 0 <= total <= max_total, and the overall total is at most 102.
C12_CategoryTotals ==
    /\ \A q \in DOMAIN scores :
          /\ q \in 1..34
          /\ scores[q] \in 0..3
          /\ \E i \in 1..rowIdx : ParseInt(csvFile.rows[i].question_id) = [ok |-> TRUE, val |-> q]
          /\ scores[q] = RecordedBy(rowIdx, q)
    /\ summary # <<>> =>
          LET cats == summary[1].categories
          IN /\ DOMAIN cats = {CategoryOrder[i] : i \in 1..7}
             /\ \A i \in 1..7 :
                   LET cat == cats[CategoryOrder[i]]
                   IN /\ cat.name = CategoryOrder[i]
                      /\ Len(cat.questions) = CategorySizes[i]
                      /\ cat.max_total = 3 * CategorySizes[i]
                      /\ cat.total = SumOfRecorded(cat.questions)
                      /\ 0 <= cat.total /\ cat.total <= cat.max_total
             /\ \A q \in 1..34 :
                   Cardinality({<<i, k>> \in (1..7) \X (1..7) :
                                   k <= Len(cats[CategoryOrder[i]].questions)
                                   /\ cats[CategoryOrder[i]].questions[k] = q}) = 1
             /\ \A i \in 1..7 : \A k \in 1..Len(cats[CategoryOrder[i]].questions) :
                   cats[CategoryOrder[i]].questions[k] \in 1..34
             /\ summary[1].total <= 102

\* C12 witness: question 1 was given the score 3 more often than its category
\* has questions, and the category's total is 3
C12_Witness ==
    /\ summary # <<>>
    /\ Len(csvFile.rows) > 7
    /\ \A i \in 1..Len(csvFile.rows) : csvFile.rows[i] = [question_id |-> <<"1">>, score |-> <<"3">>]
    /\ summary[1].categories["Preparation & Governance"].total = 3
    /\ summary[1].total = 3

---------------------------------------------------------------------------
(* Properties of the email checker *)

\* the posture check_domain has just returned for the domain in cur
Returned == cur.dkim # Unset /\ results # <<>> /\ results[Len(results)].domain = cur.domain

LastPosture == results[Len(results)]

FailedQueries == {f.query : f \in failed}

\* C4: a TXT lookup that fails in any way gives the empty list and raises nothing:
\* check_domain goes on, and the posture it returns reports the record of every
\* failed query as not present (SPF and DMARC with their "No ... record found."
\* assessment, DKIM as checked and not present).
C4_LookupFailureIsAbsent ==
    /\ errors = <<>>
    /\ (lookup.kind # "none" /\ lookup.response.kind \in Failures) =>
          /\ lookup_txt_records(lookup.response) = [raised |-> FALSE, records |-> <<>>]
          /\ [query |-> lookup.kind, error |-> lookup.response.kind] \in failed
          /\ lookup.kind = "spf" => (cur.spf # Unset /\ ~cur.spf.present /\ pc = "chk_dmarc")
          /\ lookup.kind = "dmarc" => (cur.dmarc # Unset /\ ~cur.dmarc.present /\ pc # "chk_dmarc")
          /\ lookup.kind = "dkim" => Returned
    /\ Returned =>
          /\ "spf" \in FailedQueries =>
                /\ ~LastPosture.spf_present
                /\ LastPosture.spf_record = <<>>
                /\ LastPosture.spf_assessment = <<Part("No SPF record found.")>>
          /\ "dmarc" \in FailedQueries =>
                /\ ~LastPosture.dmarc_present
                /\ LastPosture.dmarc_record = <<>>
                /\ LastPosture.dmarc_assessment = <<Part("No DMARC record found.")>>
          /\ "dkim" \in FailedQueries =>
                /\ LastPosture.dkim_checked
                /\ ~LastPosture.dkim_present
                /\ LastPosture.dkim_record = <<>>

\* C4 witness: all three queries of one check failed, each in another way, the
\* last by an exception that is none of the resolver's three, and the posture
\* was returned
C4_Witness ==
    /\ Returned
    /\ failed = {[query |-> "spf", error |-> "NXDOMAIN"], [query |-> "dmarc", error |-> "NoAnswer"],
                 [query |-> "dkim", error |-> "Exception"]}
    /\ ~LastPosture.spf_present
    /\ ~LastPosture.dmarc_present
    /\ LastPosture.dkim_checked
    /\ ~LastPosture.dkim_present

\* the elements of seq that are in set, in the order of seq
RECURSIVE KeepIn(_, _)
KeepIn(seq, set) ==
    IF seq = <<>> THEN <<>>
    ELSE (IF seq[1] \in set THEN <<seq[1]>> ELSE <<>>) \o KeepIn(Tail(seq), set)

Range(seq) == {seq[i] : i \in 1..Len(seq)}

DomainsOf(postures) == [i \in 1..Len(postures) |-> postures[i].domain]

\* the domains the loop is done with
Finished == SubSeq(domains, 1, domIdx)

\* C5: the batch loop attempts the domains one by one in list order, each once;
\* a domain whose check raised has its error printed and no posture, every other
\* finished domain has exactly one posture, both in list order; the loop always
\* reaches the end of the list, and the report and the CSV hold main's results.
C5_BatchLoop ==
    /\ attempts = SubSeq(domains, 1, Len(attempts))
    /\ pc = "chk_spf" => Len(attempts) = domIdx
    /\ pc \in {"chk_dmarc", "chk_dkim"} => Len(attempts) = domIdx + 1
    /\ errors = KeepIn(Finished, Range(errors))
    /\ DomainsOf(results) = KeepIn(Finished, Range(Finished) \ Range(errors))
    /\ (pc \in {"email_report", "exit"} /\ domains # <<>>) => (attempts = domains /\ domIdx = Len(domains))
    /\ pc = "exit" =>
          /\ report = results
          /\ csvOut = IF args.output /\ results # <<>> THEN <<results>> ELSE <<>>
          /\ exitCode = 0

\* C5 witness: of three domains the check of the second raised; the first and
\* the third are in the results, the report and the CSV
C5_Witness ==
    /\ pc = "exit"
    /\ domains = <<<<"a",".","i","o">>, <<"b",".","i","o">>, <<"c",".","i","o">>>>
    /\ attempts = domains
    /\ errors = <<<<"b",".","i","o">>>>
    /\ DomainsOf(results) = <<<<"a",".","i","o">>, <<"c",".","i","o">>>>
    /\ DomainsOf(report) = <<<<"a",".","i","o">>, <<"c",".","i","o">>>>
    /\ csvOut = <<results>>

\* rec carries the v=DKIM1 version tag
CarriesDkimTag(rec) == contains(rec, <<"v","=","D","K","I","M","1">>)

\* C6: with a selector and a non-empty answer, the DKIM record reported is the
\* first record of the answer carrying the v=DKIM1 tag, and only when no record
\* carries it the first record of the answer.
C6_DkimFirstTagged ==
    (lookup.kind = "dkim" /\ lookup.response.kind = "answer" /\ cur.dkim # Unset) =>
        LET recs == lookup_txt_records(lookup.response).records
            tagged == {i \in 1..Len(recs) : CarriesDkimTag(recs[i])}
        IN /\ cur.dkim.present
           /\ cur.dkim.record = IF tagged = {} THEN recs[1]
                                ELSE recs[CHOOSE i \in tagged : \A j \in tagged : i <= j]

\* s begins with prefix, letter case ignored
BeginsWith(s, prefix) ==
    /\ Len(s) >= Len(prefix)
    /\ \A k \in 1..Len(prefix) : LowerChar(s[k]) = LowerChar(prefix[k])

\* the first of recs that begins with prefix, without its surrounding whitespace
FirstWithPrefix(recs, prefix) ==
    LET hits == {i \in 1..Len(recs) : BeginsWith(recs[i], prefix)}
    IN IF hits = {} THEN [present |-> FALSE, record |-> <<>>]
       ELSE [present |-> TRUE, record |-> strip(recs[CHOOSE i \in hits : \A j \in hits : i <= j])]

\* C7: of the TXT records returned for the domain (for _dmarc.domain) the one
\* reported, without its surrounding whitespace, is the first in answer order
\* that begins with v=spf1 (v=dmarc1) in any letter case; spf_present
\* (dmarc_present) holds exactly when there is one, and a record without the
\* prefix is never reported.
C7_FirstPrefixedRecord ==
    /\ lookup.kind = "spf" =>
          LET want == FirstWithPrefix(lookup_txt_records(lookup.response).records, <<"v","=","s","p","f","1">>)
          IN cur.spf.present = want.present /\ cur.spf.record = want.record
    /\ lookup.kind = "dmarc" =>
          LET want == FirstWithPrefix(lookup_txt_records(lookup.response).records, <<"v","=","d","m","a","r","c","1">>)
          IN cur.dmarc.present = want.present /\ cur.dmarc.record = want.record
    /\ Returned =>
          /\ LastPosture.spf_present = cur.spf.present
          /\ LastPosture.spf_record = cur.spf.record
          /\ LastPosture.spf_record # <<>> => BeginsWith(LastPosture.spf_record, <<"v","=","s","p","f","1">>)
          /\ LastPosture.dmarc_present = cur.dmarc.present
          /\ LastPosture.dmarc_record = cur.dmarc.record
          /\ LastPosture.dmarc_record # <<>> => BeginsWith(LastPosture.dmarc_record, <<"v","=","d","m","a","r","c","1">>)

\* C7 witness: an answer whose first record is no SPF record and whose second is
\* one written in capitals; the second is reported
C7_Witness ==
    /\ lookup.kind = "spf"
    /\ lookup.response.kind = "answer"
    /\ LET recs == lookup_txt_records(lookup.response).records
       IN /\ Len(recs) = 2
          /\ ~BeginsWith(recs[1], <<"v","=","s","p","f","1">>)
          /\ BeginsWith(recs[2], <<"v","=","s","p","f","1">>)
          /\ ~startswith(recs[2], <<"v","=","s","p","f","1">>)
          /\ cur.spf.present
          /\ cur.spf.record = strip(recs[2])

Restrictive == Part("Restrictive policy (-all).")
SoftFail == Part("Soft fail policy (~all). Consider -all if mature.")
Permissive == Part("Permissive 'all' mechanism. Review necessity.")
UsesInclude == Part("Uses include mechanisms (check third-party senders).")

Among(part, assessment) == \E i \in 1..Len(assessment) : assessment[i] = part

Count(part, assessment) == Cardinality({i \in 1..Len(assessment) : assessment[i] = part})

\* the record has mech as one of its space-separated terms after the version
HasMechanism(record, mech) ==
    LET terms == split(lower(record), " ")
    IN \E i \in 2..Len(terms) : terms[i] = mech

\* C8: the assessment of a present SPF record holds at most one of the three
\* policy phrases: Restrictive when the record has " -all", else Soft fail when
\* it has " ~all", else Permissive when it has any other "all"; a record with a
\* -all mechanism and an include: mechanism has Restrictive and Uses include and
\* neither Soft fail nor Permissive.
C8_SpfPolicyPhrase ==
    (cur.spf # Unset /\ cur.spf.present) =>
        LET a == cur.spf.assessment
            low == lower(cur.spf.record)
        IN /\ Count(Restrictive, a) + Count(SoftFail, a) + Count(Permissive, a) <= 1
           /\ Among(Restrictive, a) <=> contains(low, <<" ","-","a","l","l">>)
           /\ Among(SoftFail, a) <=> (~contains(low, <<" ","-","a","l","l">>) /\ contains(low, <<" ","~","a","l","l">>))
           /\ Among(Permissive, a) <=> (~contains(low, <<" ","-","a","l","l">>) /\ ~contains(low, <<" ","~","a","l","l">>) /\ contains(low, <<"a","l","l">>))
           /\ HasMechanism(cur.spf.record, <<"-","a","l","l">>) => Among(Restrictive, a)
           /\ (~HasMechanism(cur.spf.record, <<"-","a","l","l">>) /\ HasMechanism(cur.spf.record, <<"~","a","l","l">>)) => Among(SoftFail, a)
           /\ (HasMechanism(cur.spf.record, <<"-","a","l","l">>) /\ contains(low, <<"i","n","c","l","u","d","e",":">>)) =>
                 /\ Among(Restrictive, a)
                 /\ Among(UsesInclude, a)
                 /\ ~Among(SoftFail, a)
                 /\ ~Among(Permissive, a)
           /\ Returned => (LastPosture.spf_present /\ LastPosture.spf_assessment = a)

\* C8 witness: "v=spf1 include:x.io -all" is returned as present with exactly the
\* Restrictive and the Uses include phrases
C8_Witness ==
    /\ Returned
    /\ LastPosture.spf_present
    /\ LastPosture.spf_record = <<"v","=","s","p","f","1"," ","i","n","c","l","u","d","e",":","x",".","i","o"," ","-","a","l","l">>
    /\ LastPosture.spf_assessment = <<Restrictive, UsesInclude>>

\* the value of a tag of a DMARC record: of the ;-separated parts that hold an
\* "=", the last whose name (letter case ignored) is the tag gives <<value>>;
\* <<>> if there is none
TagValue(record, tag) ==
    LET parts == split(record, ";")
        named == {i \in 1..Len(parts) :
                     /\ contains(parts[i], <<"=">>)
                     /\ lower(strip(splitOnce(parts[i], "=")[1])) = tag}
    IN IF named = {} THEN <<>>
       ELSE <<strip(splitOnce(parts[CHOOSE i \in named : \A j \in named : j <= i], "=")[2])>>

MonitoringOnly == Part("Monitoring-only DMARC policy (p=none). Consider quarantine/reject.")
Quarantine == Part("Quarantine policy in place (p=quarantine).")
Reject == Part("Strong enforcement policy (p=reject).")
Unrecognised == Part("DMARC policy missing or unrecognised; review required.")
PolicyPhrases == {MonitoringOnly, Quarantine, Reject, Unrecognised}
PctNote(pct) == [text |-> "DMARC applies to {pct}% of messages (pct={pct}).", arg |-> pct]
MonitoringNote == Part("DMARC monitoring only (p=none).")

\* C9: for a present DMARC record, with its tags read as ;-separated name=value
\* pairs whose names ignore letter case: exactly one policy phrase is in the
\* assessment, chosen by the p tag in lower case (none, quarantine, reject, else
\* or missing: unrecognised), the policy shown is that value or "(not set)" when
\* there is none; the pct note is there exactly when a pct tag has a value other
\* than 100; and the notes of the posture hold "DMARC monitoring only (p=none)."
\* exactly when the policy is none.
C9_DmarcAssessment ==
    /\ (cur.dmarc # Unset /\ cur.dmarc.present) =>
          LET a == cur.dmarc.assessment
              p == TagValue(cur.dmarc.record, <<"p">>)
              pct == TagValue(cur.dmarc.record, <<"p","c","t">>)
              policy == IF p = <<>> THEN <<>> ELSE lower(p[1])
              phrase == CASE policy = <<"n","o","n","e">> -> MonitoringOnly
                          [] policy = <<"q","u","a","r","a","n","t","i","n","e">> -> Quarantine
                          [] policy = <<"r","e","j","e","c","t">> -> Reject
                          [] OTHER -> Unrecognised
          IN /\ Cardinality({i \in 1..Len(a) : a[i] \in PolicyPhrases}) = 1
             /\ Among(phrase, a)
             /\ cur.dmarc.policy = IF policy = <<>> THEN <<"(","n","o","t"," ","s","e","t",")">> ELSE policy
             /\ (\E i \in 1..Len(a) : a[i].text = PctNote(<<>>).text) <=> (pct # <<>> /\ pct[1] # <<"1","0","0">>)
             /\ (pct # <<>> /\ pct[1] # <<"1","0","0">>) => Among(PctNote(pct[1]), a)
             /\ cur.dmarc.record = <<"v","=","D","M","A","R","C","1",";"," ","p","=","n","o","n","e",";"," ","p","c","t","=","5","0">> => (Among(MonitoringOnly, a) /\ Among(PctNote(<<"5","0">>), a))
    /\ Returned =>
          /\ LastPosture.dmarc_assessment = cur.dmarc.assessment
          /\ LastPosture.dmarc_policy = cur.dmarc.policy
          /\ Among(MonitoringNote, LastPosture.notes) <=> (cur.dmarc.present /\ cur.dmarc.policy = <<"n","o","n","e">>)

\* C9 witness: "v=DMARC1; p=none; pct=50" is returned with the monitoring-only
\* phrase, the pct=50 note and the monitoring note
C9_Witness ==
    /\ Returned
    /\ LastPosture.dmarc_present
    /\ LastPosture.dmarc_record = <<"v","=","D","M","A","R","C","1",";"," ","p","=","n","o","n","e",";"," ","p","c","t","=","5","0">>
    /\ LastPosture.dmarc_policy = <<"n","o","n","e">>
    /\ Among(MonitoringOnly, LastPosture.dmarc_assessment)
    /\ Among(PctNote(<<"5","0">>), LastPosture.dmarc_assessment)
    /\ Among(MonitoringNote, LastPosture.notes)

---------------------------------------------------------------------------
(* Properties of the RACI generator *)

\* the parsed document is empty, or a mapping without the roles or the tasks key
LacksKey == yamlFile.doc.kind = "null" \/ (yamlFile.doc.kind = "map" /\ (yamlFile.doc.roles = None \/ yamlFile.doc.tasks = None))

\* the document is no mapping at all
NotAMapping == yamlFile.doc.kind \in {"list", "str", "int"}

Unusable == ~yamlFile.exists \/ ~yamlFile.parses \/ LacksKey \/ NotAMapping

\* C10: when the input file is missing, is no YAML, or its document lacks the
\* roles or the tasks key (an empty document and a document that is no mapping
\* included), load_yaml does not return: one message goes to stderr, the exit
\* status is 1, build_raci_excel is never reached and the workbook at the output
\* path is neither created nor replaced.
C10_LoadYamlRejects ==
    Unusable =>
        /\ pc # "raci_build"
        /\ data = <<>>
        /\ xlsx \in {<<>>, <<OldWorkbook>>}
        /\ pc = "exit" =>
              /\ exitCode = 1
              /\ Len(stderr) = 1
              /\ ~yamlFile.exists => stderr[1] = "Error: input YAML not found"
              /\ (yamlFile.exists /\ ~yamlFile.parses) => stderr[1] = "Error parsing YAML file"
              /\ (yamlFile.exists /\ yamlFile.parses /\ LacksKey) =>
                    stderr[1] = "Error: YAML must contain 'roles' and 'tasks' keys."

\* C10 witness: a document with roles and no tasks ended the run with status 1
\* and left the workbook that was there
C10_Witness ==
    /\ pc = "exit"
    /\ exitCode = 1
    /\ yamlFile.exists /\ yamlFile.parses
    /\ yamlFile.doc.kind = "map"
    /\ yamlFile.doc.roles # None
    /\ yamlFile.doc.tasks = None
    /\ stderr = <<"Error: YAML must contain 'roles' and 'tasks' keys.">>
    /\ xlsx = <<OldWorkbook>>

\* the workbook holds the header row and one row per task of document d, in
\* input order, each cell with the code the task assigns the role of its column
\* and blank when the task assigns that role nothing
SheetOf(d, wb) ==
    LET roles == d.roles[1].items
        tasks == d.tasks[1].items
    IN /\ Len(wb.rows) = 1 + Len(tasks)
       /\ wb.rows[1] = <<<<"T","a","s","k"," ","/"," ","A","c","t","i","v","i","t","y">>>> \o [i \in 1..Len(roles) |-> str(roles[i])]
       /\ \A t \in 1..Len(tasks) :
             LET assigned == IF tasks[t].assignments = None THEN NoAssignments ELSE tasks[t].assignments[1]
             IN /\ Len(wb.rows[t + 1]) = 1 + Len(roles)
                /\ wb.rows[t + 1][1] = (IF tasks[t].name = None THEN <<>> ELSE tasks[t].name[1])
                /\ \A r \in 1..Len(roles) :
                      wb.rows[t + 1][r + 1] = IF roles[r] \in DOMAIN assigned THEN assigned[roles[r]] ELSE <<>>

Generated == pc = "exit" /\ data # <<>> /\ xlsx # <<>>

\* C11: for any valid document the sheet has the header row ("Task / Activity",
\* then the roles in input order) and one row per task in input order; the cell
\* of task t and role r holds the code t assigns to r, and is blank when t does
\* not assign r; an assignment to a name that is no listed role has no cell.
C11_SheetRows == Generated => SheetOf(data[1], xlsx[1])

\* the same for the documents whose roles are all strings
C11_SheetRowsOfStringRoles ==
    (Generated /\ \A i \in 1..Len(data[1].roles[1].items) : data[1].roles[1].items[i].t = "str")
        => SheetOf(data[1], xlsx[1])

---------------------------------------------------------------------------
(* Properties of the domain list *)

\* the domains the command line names: the --domain values that are not empty,
\* and the lines of the --input file that are neither blank nor comments,
\* without their surrounding whitespace; all in lower case
Named ==
    LET lines == IF args.input = None THEN <<>> ELSE args.input[1]
    IN {lower(args.domain[i]) : i \in {j \in 1..Len(args.domain) : args.domain[j] # <<>>}}
       \cup {lower(strip(lines[i])) : i \in {j \in 1..Len(lines) : strip(lines[j]) # <<>> /\ strip(lines[j])[1] # "#"}}

\* C13: once load_domains has returned, the list holds exactly the domains the
\* --domain flags and the --input lines name, in lower case, each once, in
\* increasing order, and none of it is a blank or a comment line of the file;
\* when the list is empty the run ends with no DNS lookup, no posture and no CSV.
C13_DomainList ==
    pc # "email_load" =>
        /\ Range(domains) = Named
        /\ \A i \in 1..Len(domains) : \A j \in (i + 1)..Len(domains) : StrLess(domains[i], domains[j])
        /\ \A i \in 1..Len(domains) :
              /\ domains[i] # <<>>
              /\ domains[i] = lower(domains[i])
              /\ args.domain = <<>> => domains[i][1] # "#"
        /\ domains = <<>> =>
              /\ pc = "exit"
              /\ notice = <<"No domains provided. Use --domain or --input.">>
              /\ lookup.kind = "none"
              /\ attempts = <<>>
              /\ results = <<>>
              /\ report = <<>>
              /\ csvOut = <<>>

\* C13 witness: c.io twice and B.io on the command line, b.io and A.io in a file
\* with a comment and a blank line: the loop starts on a.io, b.io, c.io
C13_Witness ==
    /\ pc = "chk_spf"
    /\ domIdx = 0
    /\ args.domain = <<<<"c",".","i","o">>, <<"B",".","i","o">>, <<"c",".","i","o">>>>
    /\ args.input = InputFile
    /\ domains = <<<<"a",".","i","o">>, <<"b",".","i","o">>, <<"c",".","i","o">>>>

\* a run with --output whose file holds comments only ends without a list
C13_EmptyListReached ==
    /\ pc = "exit"
    /\ args.domain = <<>>
    /\ args.input = CommentFile
    /\ args.output
    /\ domains = <<>>
    /\ csvOut = <<>>

====
